---- MODULE Spec2Model ----
(***************************************************************************)
(* Model of the QuantaStor cinder plugin: the REST client                  *)
(* (devstack/quantastor_api.py) and the volume driver that calls it        *)
(* (devstack/quantastor.py).  One driver operation runs at a time; every   *)
(* HTTP round trip of make_call is one step whose response is chosen by    *)
(* the server, i.e. nondeterministically.  An exception raised by a step   *)
(* propagates, in that same step, to the first handler the code has for    *)
(* it (the retry decorator of wait_on_task, the try/except of the          *)
(* lookups) or out of the driver operation.  do_setup constructs the       *)
(* client from configuration.san_ip before any other operation runs.       *)
(***************************************************************************)
EXTENDS Integers, Sequences, FiniteSets, TLC

\* ------------------------------------------------------------------ bounds
\* Largest volume size, in GB, a driver operation is asked for.
MaxSizeGB == 2

\* ------------------------------------------------------- program constants
HTTP_OK == 200
OSN_TASKSTATE_FAILED == 3
OSN_TASKSTATE_CANCELLED == 4
OSN_TASKSTATE_COMPLETED == 5
\* the poll loop of wait_on_task leaves at i == 10
MaxPolls == 10
\* @utils.retry(QuantastorAPIException, interval=2, retries=3)
Retries == 3
\* units.Ki
Ki == 1024

\* The marker of a taskGet body that has no taskState key, and the codes of
\* a task still queued or running (any code other than 3, 4 and 5).
NoState == -1
InProgressStates == {2}

\* ------------------------------------------------------------- wire values
\* JSON values are strings here: "absent" is a missing key, "null" a JSON
\* null (Python None).
CustomIds == {"c1", "c2"}
SizesGB == 1..MaxSizeGB


\* ------------------------------------------------ strings and big integers
\* A Python str is the sequence of its characters.  A Python int is kept as
\* the sequence of its decimal digits, most significant first and without
\* leading zeros (<<0>> is zero): a byte count does not fit the machine
\* integers of the checker.
DigitChars == <<"0", "1", "2", "3", "4", "5", "6", "7", "8", "9">>
IsDigit(c) == \E d \in 1..Len(DigitChars) : DigitChars[d] = c
DigitOf(c) == (CHOOSE d \in 1..Len(DigitChars) : DigitChars[d] = c) - 1

RECURSIVE Reverse(_)
Reverse(s) == IF s = <<>> THEN <<>> ELSE Reverse(Tail(s)) \o <<Head(s)>>

RECURSIVE StripZeros(_)
StripZeros(b) ==
  IF Len(b) > 1 /\ Head(b) = 0 THEN StripZeros(Tail(b)) ELSE b

\* The int with value n, n a machine integer.
RECURSIVE BigFromNat(_)
BigFromNat(n) ==
  IF n < 10 THEN <<n>> ELSE BigFromNat(n \div 10) \o <<n % 10>>

\* The value of an int known to be small.
RECURSIVE BigToNat(_)
BigToNat(b) ==
  IF Len(b) = 1 THEN b[1]
  ELSE 10 * BigToNat(SubSeq(b, 1, Len(b) - 1)) + b[Len(b)]

\* d * m + carry, d given least significant digit first.
RECURSIVE MulDigits(_, _, _)
MulDigits(d, m, carry) ==
  IF d = <<>>
  THEN IF carry = 0 THEN <<>> ELSE Reverse(BigFromNat(carry))
  ELSE <<(Head(d) * m + carry) % 10>>
         \o MulDigits(Tail(d), m, (Head(d) * m + carry) \div 10)

\* b * m for a machine integer m.
BigMul(b, m) == StripZeros(Reverse(MulDigits(Reverse(b), m, 0)))

\* Long division of the digits d, rem being the remainder carried in.
RECURSIVE DivDigits(_, _, _)
DivDigits(d, m, rem) ==
  IF d = <<>> THEN [q |-> <<>>, r |-> rem]
  ELSE LET t == rem * 10 + Head(d)
           rest == DivDigits(Tail(d), m, t % m)
       IN [q |-> <<t \div m>> \o rest.q, r |-> rest.r]

\* Quotient and remainder of b by a machine integer m.
BigDivMod(b, m) ==
  [q |-> StripZeros(DivDigits(b, m, 0).q), r |-> DivDigits(b, m, 0).r]

\* str(n) of an int n: its decimal digits as characters.
RECURSIVE str(_)
str(n) ==
  IF n = <<>> THEN <<>> ELSE <<DigitChars[Head(n) + 1]>> \o str(Tail(n))

\* The digits of a str of decimal digits, leading zeros kept.
RECURSIVE ParseDigits(_)
ParseDigits(s) ==
  IF s = <<>> THEN <<>> ELSE <<DigitOf(Head(s))>> \o ParseDigits(Tail(s))

\* int(s) of a str of decimal digits.
int(s) == StripZeros(ParseDigits(s))

\* A Python float holding whole + frac / Ki ** 3 (0 <= frac < Ki ** 3).
Float(whole, frac) == [kind |-> "float", whole |-> whole, frac |-> frac]

\* gb_to_b_size with the decimal kilo in place of units.Ki.
gb_to_b_size_decimal(size_gb) ==
  str(BigMul(BigMul(BigMul(BigFromNat(size_gb), 1000), 1000), 1000))

\* str(int(size_gb) * (units.Ki ** 3)); the product is formed one factor Ki
\* at a time.
gb_to_b_size(size_gb) ==
  str(BigMul(BigMul(BigMul(BigFromNat(size_gb), Ki), Ki), Ki))

\* float(int(size_b) / (units.Ki ** 3)), `/` being the true division of
\* Python 3: the quotient and the remainder by Ki ** 3 are formed one
\* divisor Ki at a time.  size_b is a str of decimal digits, as
\* gb_to_b_size returns it and as sizes travel on the wire.
b_to_gb_size(size_b) ==
  LET d1 == BigDivMod(int(size_b), Ki)
      d2 == BigDivMod(d1.q, Ki)
      d3 == BigDivMod(d2.q, Ki)
  IN Float(BigToNat(d3.q), d1.r + Ki * d2.r + Ki * Ki * d3.r)

\* JSON null (Python None) where a size is expected.
NoneSize == <<>>

\* An HTTP response r of requests.get: the status code and the fields of
\* the decoded JSON body that the client reads.
\*   empty      the body is falsy ({}), so `if json_output:` fails
\*   RestError  the body has the key "RestError"
\*   task       json_output["task"]: "absent", "null", "noid" (a task
\*              object without "id") or a task id
\*   taskState, customId   the fields of a task object (taskGet)
\*   obj        the entity is wrapped in an "obj" envelope
\*   name, id, attrs, size, hostId   the fields of the entity: name / the
\*              ACL's storageVolumeId present, the id, size and iqn (of a
\*              pool: size and freeSpace) present
\*   freeSpace  the free space of a pool
R0 ==
  [status |-> HTTP_OK, empty |-> FALSE, RestError |-> FALSE, task |-> "absent",
   taskState |-> NoState, customId |-> "absent",
   obj |-> FALSE, name |-> FALSE, id |-> "absent", attrs |-> FALSE,
   size |-> gb_to_b_size(0), hostId |-> "absent", freeSpace |-> NoneSize]

NoResponse == [R0 EXCEPT !.status = 0, !.empty = TRUE]
EmptyBody == [R0 EXCEPT !.empty = TRUE]
TransportFailure == [R0 EXCEPT !.status = 500, !.empty = TRUE]
RestErrorBody == [R0 EXCEPT !.RestError = TRUE]
\* a non-200 response whose body is an error object
NotFoundWithError == [R0 EXCEPT !.status = 404, !.RestError = TRUE]
ErrorResponses == {TransportFailure, RestErrorBody, NotFoundWithError}

\* Responses to the mutating endpoints (storageVolumeCreate, ..., hostAdd).
MutatingResponses ==
  ErrorResponses \cup {EmptyBody}
    \cup {[R0 EXCEPT !.task = t] : t \in {"absent", "null", "noid", "t1"}}

TaskStates ==
  {NoState, OSN_TASKSTATE_FAILED, OSN_TASKSTATE_CANCELLED,
   OSN_TASKSTATE_COMPLETED} \cup InProgressStates

\* Responses to taskGet.  A task object carries its description; a completed
\* one may lack customId.
TaskGetResponses ==
  ErrorResponses \cup {EmptyBody}
    \cup {[R0 EXCEPT !.taskState = s, !.customId = c] :
            s \in TaskStates, c \in CustomIds}
    \cup {[R0 EXCEPT !.taskState = OSN_TASKSTATE_COMPLETED]}

\* Responses to storageVolumeGet.
VolumeGetResponses ==
  ErrorResponses \cup {EmptyBody}
    \cup {[R0 EXCEPT !.obj = o, !.name = n, !.id = d] :
            o \in BOOLEAN, n \in BOOLEAN, d \in {"absent", "null", "v1"}}
    \cup {[R0 EXCEPT !.obj = o, !.name = TRUE, !.id = d, !.attrs = TRUE,
                     !.size = gb_to_b_size(s)] :
            o \in BOOLEAN, d \in {"null", "v1"}, s \in SizesGB}

\* Responses to hostGet.
HostGetResponses ==
  ErrorResponses \cup {EmptyBody}
    \cup {[R0 EXCEPT !.obj = o, !.name = n, !.id = d] :
            o \in BOOLEAN, n \in BOOLEAN, d \in {"absent", "null", "h1"}}

\* Responses to storageVolumeAclGet.
AclGetResponses ==
  ErrorResponses \cup {EmptyBody}
    \cup {[R0 EXCEPT !.name = n, !.hostId = h] :
            n \in BOOLEAN, h \in {"absent", "null", "h1"}}

\* The sizes a pool reports, in GB: the sizes of the volumes, the 10 GB of
\* the documented example, and a petabyte.
PoolSizesGB == (0..MaxSizeGB) \cup {10, 1000000}

\* 1.5 KiB: a byte count that is no whole number of GB.
OddSize == <<"1", "5", "3", "6">>

\* Responses to storagePoolGet.
PoolGetResponses ==
  ErrorResponses \cup {EmptyBody}
    \cup {[R0 EXCEPT !.obj = o, !.name = n, !.id = d] :
            o \in BOOLEAN, n \in BOOLEAN, d \in {"absent", "p1"}}
    \cup {[R0 EXCEPT !.name = TRUE, !.id = d, !.attrs = TRUE,
                     !.size = s, !.freeSpace = f] :
            d \in {"null", "p1"},
            s \in {gb_to_b_size(g) : g \in PoolSizesGB} \cup {NoneSize},
            f \in {gb_to_b_size(1), OddSize, NoneSize}}

\* ------------------------------------------------------ results and errors
\* What a client lookup returns: None or a domain object.  id is "null" for
\* an object whose identifier is None.
NoneValue ==
  [kind |-> "None", id |-> "null", size |-> gb_to_b_size(0),
   freeSpace |-> NoneSize]
Volume(id, size) == [NoneValue EXCEPT !.kind = "Volume", !.id = id, !.size = size]
Host(id) == [NoneValue EXCEPT !.kind = "Host", !.id = id]
VolumeAcl(host_id) == [NoneValue EXCEPT !.kind = "VolumeAcl", !.id = host_id]
Pool(id, free_space, size) ==
  [kind |-> "Pool", id |-> id, size |-> size, freeSpace |-> free_space]

\* An exception: its class, the statement that raised it, and for the
\* errors of make_call the endpoint it was calling and the status code in
\* its message (0 when the message has none).
Exc(type, why, api) == [type |-> type, why |-> why, api |-> api, code |-> 0]
NoExc == Exc("none", "", "")
Ok == Exc("ok", "", "")

\* class QuantastorAPIException(exception.VolumeBackendAPIException)
IsBackendException(e) ==
  e.type \in {"VolumeBackendAPIException", "QuantastorAPIException"}

IsError(e) == e.type \notin {"none", "ok"}

\* ------------------------------------------------------------ API client
\* make_call looking for "RestError" in the body before it tests the status.
make_call_body_first(api, r) ==
  IF r.RestError THEN Exc("VolumeDriverException", "RestError", api)
  ELSE IF r.status # HTTP_OK
  THEN [Exc("VolumeDriverException", "status", api) EXCEPT !.code = r.status]
  ELSE NoExc

\* make_call: the exception it raises for response r, NoExc when it returns
\* r.json().
make_call(api, r) ==
  IF r.status # HTTP_OK
  THEN [Exc("VolumeDriverException", "status", api) EXCEPT !.code = r.status]
  ELSE IF r.RestError THEN Exc("VolumeDriverException", "RestError", api)
  ELSE NoExc

\* What a client function hands its caller: a value, or an exception.
Returns(v) == [val |-> v, exc |-> NoExc]
Raises(e) == [val |-> NoneValue, exc |-> e]

\* SwallowAll without the except clause: what was raised propagates.
SwallowAll_reraise(res) == res

\* `except BaseException: pass` around a lookup: whatever was raised, the
\* lookup returns None.
SwallowAll(res) == Returns(res.val)

\* storage_volume_parse on a dict without a further envelope:
\* Volume(j['name'], j['id'], j['size'], j['iqn']).
storage_volume_parse(r) ==
  IF r.name /\ r.id # "absent" /\ r.attrs
  THEN Returns(Volume(r.id, r.size))
  ELSE Raises(Exc("KeyError", "storage_volume_parse", ""))

\* The body of the try block of storage_volume_get.
storage_volume_get_try(r) ==
  LET e == make_call("storageVolumeGet", r) IN
  IF IsError(e) THEN Raises(e)
  ELSE IF r.empty THEN Returns(NoneValue)
  ELSE IF r.obj /\ r.id # "absent" THEN storage_volume_parse(r)
  ELSE IF ~r.obj /\ r.name /\ r.id # "absent" THEN storage_volume_parse(r)
  ELSE Returns(NoneValue)

\* storage_volume_get catching nothing.
storage_volume_get_unguarded(r) ==
  LET e == make_call("storageVolumeGet", r) IN
  IF IsError(e) THEN Raises(e)
  ELSE IF r.empty THEN Returns(NoneValue)
  ELSE IF r.name /\ r.id # "absent" /\ r.attrs
  THEN Returns(Volume(r.id, r.size))
  ELSE IF r.id # "absent" /\ (r.obj \/ r.name)
  THEN Raises(Exc("KeyError", "storage_volume_parse", ""))
  ELSE Returns(NoneValue)

storage_volume_get(r) == SwallowAll(storage_volume_get_try(r))

\* host_parse: Host(json_output["name"], json_output["id"], ports); with an
\* envelope whose obj has no id the outer dict is read, which has no name.
host_parse(r) ==
  IF r.name /\ r.id # "absent"
  THEN Returns(Host(r.id))
  ELSE Raises(Exc("KeyError", "host_parse", ""))

host_get_try(r) ==
  LET e == make_call("hostGet", r) IN
  IF IsError(e) THEN Raises(e)
  ELSE IF r.empty THEN Returns(NoneValue)
  ELSE host_parse(r)

host_get(r) == SwallowAll(host_get_try(r))

storage_volume_acl_get_try(r) ==
  LET e == make_call("storageVolumeAclGet", r) IN
  IF IsError(e) THEN Raises(e)
  ELSE IF r.empty THEN Returns(NoneValue)
  ELSE IF r.name /\ r.hostId # "absent" THEN Returns(VolumeAcl(r.hostId))
  ELSE Raises(Exc("KeyError", "storage_volume_acl_get", ""))

storage_volume_acl_get(r) == SwallowAll(storage_volume_acl_get_try(r))

\* wait_on_task, before the loop: the exception raised for argument
\* json_output, NoExc when the loop is entered.
WaitEntry(json_output) ==
  IF json_output.empty \/ json_output.task = "absent"
  THEN Exc("Exception", "Task object not found in jsonOutput", "")
  ELSE IF json_output.task = "null" THEN Exc("TypeError", "task[id]", "")
  ELSE IF json_output.task = "noid" THEN Exc("KeyError", "task[id]", "")
  ELSE NoExc

\* PollStep with `if i == 10: break` tested before the task state is read.
PollStep_break_first(i, r) ==
  LET e == make_call("taskGet", r) IN
  IF IsError(e) THEN [kind |-> "raise", exc |-> e, id |-> ""]
  ELSE IF i = MaxPolls
  THEN [kind |-> "raise", id |-> "",
        exc |-> Exc("Exception", "Task did not complete", "")]
  ELSE IF ~r.empty /\ r.taskState = OSN_TASKSTATE_COMPLETED /\ r.customId # "absent"
  THEN [kind |-> "return", exc |-> NoExc, id |-> r.customId]
  ELSE IF ~r.empty /\ r.taskState \in {OSN_TASKSTATE_CANCELLED, OSN_TASKSTATE_FAILED}
  THEN [kind |-> "raise", id |-> "",
        exc |-> Exc("QuantastorAPIException", "Task failed", "")]
  ELSE [kind |-> "continue", exc |-> NoExc, id |-> ""]

\* PollStep taking every terminal state (3, 4 and 5) for completion.
PollStep_any_terminal(i, r) ==
  LET e == make_call("taskGet", r) IN
  IF IsError(e) THEN [kind |-> "raise", exc |-> e, id |-> ""]
  ELSE IF ~r.empty /\ r.taskState \in {OSN_TASKSTATE_COMPLETED,
                                       OSN_TASKSTATE_CANCELLED,
                                       OSN_TASKSTATE_FAILED}
  THEN IF r.customId = "absent"
       THEN [kind |-> "raise", exc |-> Exc("KeyError", "customId", ""), id |-> ""]
       ELSE [kind |-> "return", exc |-> NoExc, id |-> r.customId]
  ELSE IF i = MaxPolls
  THEN [kind |-> "raise", id |-> "",
        exc |-> Exc("Exception", "Task did not complete", "")]
  ELSE [kind |-> "continue", exc |-> NoExc, id |-> ""]

\* One iteration of the loop of wait_on_task, i being the counter after
\* i = i + 1 and r the response to taskGet: "return" with the customId,
\* "raise" with the exception, or "continue".
PollStep(i, r) ==
  LET e == make_call("taskGet", r) IN
  IF IsError(e) THEN [kind |-> "raise", exc |-> e, id |-> ""]
  ELSE IF ~r.empty /\ r.taskState = OSN_TASKSTATE_COMPLETED
  THEN IF r.customId = "absent"
       THEN [kind |-> "raise", exc |-> Exc("KeyError", "customId", ""), id |-> ""]
       ELSE [kind |-> "return", exc |-> NoExc, id |-> r.customId]
  ELSE IF ~r.empty /\ r.taskState = OSN_TASKSTATE_CANCELLED
  THEN [kind |-> "raise", id |-> "",
        exc |-> Exc("QuantastorAPIException", "Task cancelled", "")]
  ELSE IF ~r.empty /\ r.taskState = OSN_TASKSTATE_FAILED
  THEN [kind |-> "raise", id |-> "",
        exc |-> Exc("QuantastorAPIException", "Task failed", "")]
  ELSE IF i = MaxPolls
  THEN [kind |-> "raise", id |-> "",
        exc |-> Exc("Exception", "Task did not complete", "")]
  ELSE [kind |-> "continue", exc |-> NoExc, id |-> ""]

\* ShouldRetry with the decorator given Exception instead of
\* QuantastorAPIException: every exception is retried.
ShouldRetry_any(e, attempt) == attempt < Retries

\* ShouldRetry without the limit on the number of attempts.
ShouldRetry_unlimited(e, attempt) == e.type = "QuantastorAPIException"

\* @utils.retry(QuantastorAPIException, interval=2, retries=3): whether the
\* decorator calls wait_on_task again after attempt number `attempt` raised e.
ShouldRetry(e, attempt) ==
  e.type = "QuantastorAPIException" /\ attempt < Retries

\* host_add: `json_output and json_output['task'] and 'id' in
\* json_output['task'].keys()`: "wait", "skip", or "raise" (KeyError).
HostAddCondition(json_output) ==
  IF json_output.empty THEN "skip"
  ELSE IF json_output.task = "absent" THEN "raise"
  ELSE IF json_output.task \in {"null", "noid"} THEN "skip"
  ELSE "wait"

\* storage_pool_get: Pool(json_output['name'], json_output['id'],
\* json_output['freeSpace'], json_output['size']), nothing caught.
storage_pool_get(r) ==
  LET e == make_call("storagePoolGet", r) IN
  IF IsError(e) THEN Raises(e)
  ELSE IF ~r.empty /\ ~r.obj /\ r.name /\ r.id # "absent" /\ r.attrs
  THEN Returns(Pool(r.id, r.freeSpace, r.size))
  ELSE Raises(Exc("KeyError", "storage_pool_get", ""))

\* str.split(sep), cur being the piece collected so far.
RECURSIVE split(_, _, _)
split(s, sep, cur) ==
  IF s = <<>> THEN <<cur>>
  ELSE IF Head(s) = sep THEN <<cur>> \o split(Tail(s), sep, <<>>)
  ELSE split(Tail(s), sep, Append(cur, Head(s)))

HexChars ==
  {DigitChars[d] : d \in 1..Len(DigitChars)}
    \cup {"a", "b", "c", "d", "e", "f", "A", "B", "C", "D", "E", "F"}

\* ipaddress.IPv4Address: four octets of one to three decimal digits, no
\* leading zero, at most 255.
IsOctet(o) ==
  /\ Len(o) \in 1..3
  /\ \A k \in 1..Len(o) : IsDigit(o[k])
  /\ ~(Len(o) > 1 /\ o[1] = "0")
  /\ BigToNat(ParseDigits(o)) <= 255

IsIPv4(s) ==
  LET octets == split(s, ".", <<>>)
  IN Len(octets) = 4 /\ \A k \in 1..4 : IsOctet(octets[k])

IsHextet(h) == Len(h) \in 1..4 /\ \A k \in 1..Len(h) : h[k] \in HexChars

\* ipaddress.IPv6Address: an optional scope id after "%", then three to
\* nine pieces between colons, an IPv4 tail counting for two, at most one
\* empty piece inside ("::"), and eight hextets unless "::" stands for one
\* or more of them.
IsIPv6(s) ==
  LET scoped == split(s, "%", <<>>)
      pieces == split(scoped[1], ":", <<>>)
      last == pieces[Len(pieces)]
      tail4 == \E k \in 1..Len(last) : last[k] = "."
      parts == IF tail4
               THEN SubSeq(pieces, 1, Len(pieces) - 1) \o << <<"0">>, <<"0">> >>
               ELSE pieces
      n == Len(parts)
      skips == {k \in 2..(n - 1) : parts[k] = <<>>}
      skip == CHOOSE k \in skips : TRUE
      hi == IF parts[1] = <<>> THEN skip - 2 ELSE skip - 1
      lo == IF parts[n] = <<>> THEN n - skip - 1 ELSE n - skip
  IN /\ s # <<>>
     /\ Len(scoped) = 1 \/ (Len(scoped) = 2 /\ scoped[2] # <<>>)
     /\ Len(pieces) >= 3
     /\ tail4 => IsIPv4(last)
     /\ n <= 9
     /\ Cardinality(skips) <= 1
     /\ IF skips # {}
        THEN /\ (parts[1] = <<>>) => (hi = 0)
             /\ (parts[n] = <<>>) => (lo = 0)
             /\ 8 - (hi + lo) >= 1
             /\ \A j \in 1..hi : IsHextet(parts[j])
             /\ \A j \in (n - lo + 1)..n : IsHextet(parts[j])
        ELSE /\ n = 8
             /\ \A j \in 1..n : IsHextet(parts[j])

\* build_tgt_ip that puts every address in brackets.
build_tgt_ip_all_brackets(ip_addr) ==
  IF IsIPv4(ip_addr) \/ IsIPv6(ip_addr)
  THEN [ip |-> <<"[">> \o ip_addr \o <<"]">>, exc |-> NoExc]
  ELSE [ip |-> <<>>,
        exc |-> Exc("Exception", "san_ip address is invalid", "")]

\* build_tgt_ip: the string returned, or the exception raised.
build_tgt_ip(ip_addr) ==
  IF IsIPv4(ip_addr) THEN [ip |-> ip_addr, exc |-> NoExc]
  ELSE IF IsIPv6(ip_addr)
  THEN [ip |-> <<"[">> \o ip_addr \o <<"]">>, exc |-> NoExc]
  ELSE [ip |-> <<>>,
        exc |-> Exc("Exception", "san_ip address is invalid", "")]

\* QuantastorClient.__init__:
\* "https://" + qs_hostname + ":8153/qstorapi/".
base_url_of(qs_hostname) ==
  <<"h", "t", "t", "p", "s", ":", "/", "/">> \o qs_hostname
    \o <<":", "8", "1", "5", "3", "/",
         "q", "s", "t", "o", "r", "a", "p", "i", "/">>

\* ------------------------------------------------------------ the driver
\* The values of configuration.san_ip tried: an IPv4 address, an IPv6
\* address, three strings that are no address, and the option left unset.
SanIpV4 == <<"1", "0", ".", "0", ".", "0", ".", "5">>
SanIpV6 == <<"f", "e", "8", "0", ":", ":", "1">>
SanIpBadOctet == <<"1", "0", ".", "0", ".", "0", ".", "2", "5", "6">>
SanIpBadColons == <<"f", "e", "8", "0", ":", ":", ":", "1">>
SanIpHostName == <<"q", "s", "1">>
SanIpUnset == <<>>
SanIps ==
  {SanIpV4, SanIpV6, SanIpBadOctet, SanIpBadColons, SanIpHostName, SanIpUnset}

\* do_setup: the exception raised for configuration.san_ip (san_login and
\* san_password being set), NoExc when the client was constructed.
do_setup(san_ip) ==
  IF san_ip = <<>> THEN Exc("InvalidInput", "san_ip is not set.", "")
  ELSE build_tgt_ip(san_ip).exc
DriverOps ==
  {"create_volume", "create_cloned_volume", "create_volume_from_snapshot",
   "create_snapshot", "extend_volume", "delete_volume", "delete_snapshot",
   "initialize_connection", "get_volume_stats"}

\* The first thing each driver operation does: the stage it starts in.
FirstStage(op) ==
  CASE op = "create_volume" -> "create"
    [] op \in {"create_cloned_volume", "create_volume_from_snapshot"} -> "clone"
    [] op = "create_snapshot" -> "snapshot"
    [] op = "extend_volume" -> "extend"
    [] op \in {"delete_volume", "delete_snapshot"} -> "delete"
    [] op = "initialize_connection" -> "vol_get"
    [] op = "get_volume_stats" -> "pool_get"

\* The client function a stage of a driver operation calls.
ClientOp(st) ==
  CASE st = "create" -> "storage_volume_create"
    [] st = "clone" -> "storage_create_cloned_volume"
    [] st = "snapshot" -> "storage_create_snapshot"
    [] st = "extend" -> "storage_extend_volume"
    [] st = "delete" -> "storage_volume_delete"
    [] st \in {"verify", "vol_get"} -> "storage_volume_get"
    [] st = "host_get" -> "host_get"
    [] st = "host_add" -> "host_add"
    [] st = "attach" -> "storage_volume_attach"
    [] st = "pool_get" -> "storage_pool_get"
    [] OTHER -> "none"

\* The stages whose client function is a lookup called by the driver itself.
LookupStages == {"verify", "vol_get", "host_get", "pool_get"}

\* The endpoint of the mutating request of a client function.
MutatingEndpoint(cop) ==
  CASE cop = "storage_volume_create" -> "storageVolumeCreate"
    [] cop = "storage_create_cloned_volume" -> "storageVolumeClone"
    [] cop = "storage_create_snapshot" -> "storageVolumeSnapshot"
    [] cop = "storage_extend_volume" -> "storageVolumeResize"
    [] cop = "storage_volume_delete" -> "storageVolumeDeleteEx"
    [] cop = "host_add" -> "hostAdd"
    [] cop = "storage_volume_attach" -> "storageVolumeAclAddRemove"

\* The arguments of the driver operations: the volume (or snapshot) name,
\* connector["initiator"] and the host name initialize_connection derives
\* from it.
volume_name == "volume-1"
volume_id == "vol-id-1"
qs_pool_id == "pool-1"
initiator == "iqn.1994-05.com.redhat:abc"
host_name == "ostack-abc"

\* RefetchRequest with the volume functions looking the volume up by the
\* name they were given instead of custom_id.
RefetchRequest_by_name(cop, custom_id, host_obj) ==
  CASE cop = "host_add" ->
         [api |-> "hostGet", key |-> host_name, host |-> ""]
    [] cop = "storage_volume_attach" ->
         [api |-> "storageVolumeAclGet", key |-> volume_name, host |-> host_obj]
    [] OTHER -> [api |-> "storageVolumeGet", key |-> volume_name, host |-> ""]

\* The lookup a client function ends with, as [api, key, host]: the endpoint
\* and the payload of the request, custom_id being what wait_on_task
\* returned and host_obj the host id the driver passed.
RefetchRequest(cop, custom_id, host_obj) ==
  CASE cop \in {"storage_volume_create", "storage_create_cloned_volume",
                "storage_create_snapshot", "storage_extend_volume"} ->
         [api |-> "storageVolumeGet", key |-> custom_id, host |-> ""]
    [] cop = "host_add" ->
         [api |-> "hostGet", key |-> host_name, host |-> ""]
    [] cop = "storage_volume_attach" ->
         [api |-> "storageVolumeAclGet", key |-> volume_name, host |-> host_obj]

\* The lookup the driver itself makes in a stage.
LookupRequest(st) ==
  CASE st \in {"verify", "vol_get"} ->
         [api |-> "storageVolumeGet", key |-> volume_name, host |-> ""]
    [] st = "host_get" -> [api |-> "hostGet", key |-> initiator, host |-> ""]
    [] st = "pool_get" ->
         [api |-> "storagePoolGet", key |-> qs_pool_id, host |-> ""]

\* The responses the server may give to a request, and what the client
\* lookup makes of one.
ResponsesTo(api) ==
  CASE api = "storageVolumeGet" -> VolumeGetResponses
    [] api = "hostGet" -> HostGetResponses
    [] api = "storageVolumeAclGet" -> AclGetResponses
    [] api = "storagePoolGet" -> PoolGetResponses

LookupResult(api, r) ==
  CASE api = "storageVolumeGet" -> storage_volume_get(r)
    [] api = "hostGet" -> host_get(r)
    [] api = "storageVolumeAclGet" -> storage_volume_acl_get(r)
    [] api = "storagePoolGet" -> storage_pool_get(r)

\* create_volume, create_snapshot and the end of create_cloned_volume and
\* create_volume_from_snapshot: `out._id` read, then `is None` tested.
created_check(out) ==
  IF out.kind = "None" THEN Exc("AttributeError", "out._id", "")
  ELSE IF out.id = "null"
  THEN Exc("VolumeBackendAPIException", "Failed to load information", "")
  ELSE Ok

\* extend_volume after storage_extend_volume returned out.
extend_check(out, new_size) ==
  IF out.kind = "None" THEN Exc("AttributeError", "out._id", "")
  ELSE IF out.id = "null"
  THEN Exc("VolumeBackendAPIException", "Failed to get volume information", "")
  ELSE IF int(out.size) # int(gb_to_b_size(new_size))
  THEN Exc("VolumeBackendAPIException", "Failed to extend volume", "")
  ELSE Ok

\* delete_volume_check testing `vol is None` the wrong way round.
delete_volume_check_inverted(vol) ==
  IF vol.kind = "None"
  THEN Exc("VolumeBackendAPIException", "Failed to delete volume", "")
  ELSE Ok

\* delete_volume after the verifying storage_volume_get returned vol.
delete_volume_check(vol) ==
  IF vol.kind # "None"
  THEN Exc("VolumeBackendAPIException", "Failed to delete volume", "")
  ELSE Ok

\* delete_snapshot: `if out and out._id is not None`.
delete_snapshot_check(out) ==
  IF out.kind # "None" /\ out.id # "null"
  THEN Exc("VolumeBackendAPIException", "Failed to delete snapshot", "")
  ELSE Ok

\* initialize_connection: `if qs_vol is None or qs_vol._id is None`.
qs_vol_check(qs_vol) ==
  IF qs_vol.kind = "None" \/ qs_vol.id = "null"
  THEN Exc("VolumeBackendAPIException", "Failed to load volume information", "")
  ELSE Ok

\* initialize_connection after host_add returned out: `host_obj = out._id`
\* inside the except block, then `if host_obj is None`.
host_add_check(out) ==
  IF out.kind = "None" THEN Exc("AttributeError", "out._id", "")
  ELSE IF out.id = "null"
  THEN Exc("VolumeBackendAPIException", "Failed to create host entry", "")
  ELSE Ok

\* qs_pool_get: `if pool is None or pool._id is None`.
qs_pool_check(pool) ==
  IF pool.kind = "None" \/ pool.id = "null"
  THEN Exc("VolumeBackendAPIException",
           "Failed to load QuantaStor pool information", "")
  ELSE Ok

\* initialize_connection after storage_volume_attach returned response.
attach_check(response) ==
  IF response.kind = "None" THEN Exc("AttributeError", "response._hostId", "")
  ELSE IF response.id = "null"
  THEN Exc("VolumeBackendAPIException", "Failed to assign volume to host", "")
  ELSE Ok

\* Where a driver operation stands.
Ctl(pc, st, outcome, out, host_obj) ==
  [pc |-> pc, stage |-> st, outcome |-> outcome, out |-> out,
   host_obj |-> host_obj]

\* The driver code that runs when the client function of stage st returns
\* ret: it ends the operation (pc "done") or goes on to the next client call.
\* out and host_obj are the driver's locals, v the operation's arguments and
\* san_ip the configured address.
DriverReturn(op, st, ret, out, host_obj, v, san_ip) ==
  CASE st \in {"create", "snapshot"} ->
         Ctl("done", st, created_check(ret), ret, host_obj)
    [] st = "clone" ->
         IF v.size > v.src_size
         THEN Ctl("request", "extend", NoExc, ret, host_obj)
         ELSE Ctl("done", st, created_check(ret), ret, host_obj)
    [] st = "extend" ->
         IF op = "extend_volume" \/ IsError(extend_check(ret, v.size))
         THEN Ctl("done", st, extend_check(ret, v.size), out, host_obj)
         ELSE Ctl("done", st, created_check(out), out, host_obj)
    [] st = "delete" -> Ctl("lookup", "verify", NoExc, out, host_obj)
    [] st = "verify" ->
         Ctl("done", st,
             IF op = "delete_volume" THEN delete_volume_check(ret)
                                     ELSE delete_snapshot_check(ret),
             ret, host_obj)
    [] st = "vol_get" ->
         IF IsError(qs_vol_check(ret))
         THEN Ctl("done", st, qs_vol_check(ret), ret, host_obj)
         ELSE Ctl("lookup", "host_get", NoExc, ret, host_obj)
    [] st = "host_get" ->
         IF ret.kind = "None"
         THEN Ctl("request", "host_add", NoExc, out, host_obj)
         ELSE Ctl("request", "attach", NoExc, out, ret.id)
    [] st = "host_add" ->
         IF IsError(host_add_check(ret))
         THEN Ctl("done", st, host_add_check(ret), out, host_obj)
         ELSE Ctl("request", "attach", NoExc, out, ret.id)
    [] st = "attach" ->
         Ctl("done", st,
             IF IsError(attach_check(ret)) THEN attach_check(ret)
             ELSE IF IsError(build_tgt_ip(san_ip).exc)
             THEN build_tgt_ip(san_ip).exc
             ELSE Ok,
             out, host_obj)
    [] st = "pool_get" -> Ctl("done", st, qs_pool_check(ret), ret, host_obj)

\* One entry of the stats: 'unknown', or the float b_to_gb_size gave.
StatUnknown == [kind |-> "unknown", whole |-> 0, frac |-> 0]
StatOf(size_b) == IF size_b = NoneSize THEN StatUnknown ELSE b_to_gb_size(size_b)

\* What a driver operation returns: nothing, the stats of
\* _update_volume_stats, or the connection result of initialize_connection.
NoResult ==
  [kind |-> "none", total_capacity_gb |-> StatUnknown,
   free_capacity_gb |-> StatUnknown, target_portal |-> <<>>,
   volume_id |-> ""]

\* The value returned by operation op when it ends as c says.
DriverResult(op, c, san_ip) ==
  IF c.pc # "done" \/ c.outcome # Ok THEN NoResult
  ELSE CASE op = "get_volume_stats" ->
              [NoResult EXCEPT !.kind = "stats",
                               !.total_capacity_gb = StatOf(c.out.size),
                               !.free_capacity_gb = StatOf(c.out.freeSpace)]
         [] op = "initialize_connection" ->
              [NoResult EXCEPT !.kind = "connection",
                               !.target_portal = build_tgt_ip(san_ip).ip
                                  \o <<":", "3", "2", "6", "0">>,
                               !.volume_id = volume_id]
         [] OTHER -> NoResult

\* No driver operation catches what a client function raises: the exception
\* ends the operation.
DriverRaise(st, e, out, host_obj) == Ctl("done", st, e, out, host_obj)

\* The client functions that keep what wait_on_task returns
\* (`custom_id = self.wait_on_task(json_output)`); the others drop it.
KeepsCustomId(cop) ==
  cop \in {"storage_volume_create", "storage_create_cloned_volume",
           "storage_create_snapshot", "storage_extend_volume"}

\* The payload of the mutating request of a client function.
MutatingRequest(cop, host_obj) ==
  [api |-> MutatingEndpoint(cop),
   key |-> IF cop = "host_add" THEN host_name ELSE volume_name,
   host |-> IF cop = "storage_volume_attach" THEN host_obj ELSE ""]

\* ------------------------------------------------------------------ state
VARIABLES
  dop,          \* the driver operation running, "none" when idle
  vol,          \* its arguments: volume['size'] and the source's size, in GB
  stage,        \* the client call the driver operation has reached
  pc,           \* the position inside that client call
  json_output,  \* the response to the mutating request (wait_on_task's argument)
  i,            \* the loop counter of wait_on_task
  attempt,      \* the attempt number of the retry decorator
  custom_id,    \* the client function's local custom_id ("" while unset)
  resp,         \* the last HTTP response received
  sent,         \* the last request sent: [api, key, host]
  cret,         \* what the last lookup returned
  out,          \* the driver's local `out` / `qs_vol`
  host_obj,     \* the driver's local `host_obj`
  outcome,      \* how the driver operation ended: Ok or the exception raised
  result,       \* what the driver operation returned
  san_ip,       \* configuration.san_ip
  base_url      \* client._base_url, <<>> while there is no client

vars ==
  <<dop, vol, stage, pc, json_output, i, attempt, custom_id, resp, sent, cret,
    out, host_obj, outcome, result, san_ip, base_url>>

NoRequest == [api |-> "", key |-> "", host |-> ""]

Init ==
  /\ dop = "none"
  /\ vol = [size |-> 1, src_size |-> 1]
  /\ stage = "none"
  /\ pc = "idle"
  /\ json_output = NoResponse
  /\ i = 0
  /\ attempt = 1
  /\ custom_id = ""
  /\ resp = NoResponse
  /\ sent = NoRequest
  /\ cret = NoneValue
  /\ out = NoneValue
  /\ host_obj = ""
  /\ outcome = NoExc
  /\ result = NoResult
  /\ san_ip \in SanIps
  /\ base_url = <<>>

Apply(c) ==
  /\ pc' = c.pc
  /\ stage' = c.stage
  /\ outcome' = c.outcome
  /\ out' = c.out
  /\ host_obj' = c.host_obj
  /\ result' = DriverResult(dop, c, san_ip)

\* The framework calls do_setup, which constructs the client or raises.
DoSetup ==
  /\ pc = "idle"
  /\ base_url = <<>>
  /\ dop' = "do_setup"
  /\ pc' = "done"
  /\ outcome' = IF IsError(do_setup(san_ip)) THEN do_setup(san_ip) ELSE Ok
  /\ base_url' = IF IsError(do_setup(san_ip)) THEN base_url
                 ELSE base_url_of(build_tgt_ip(san_ip).ip)
  /\ UNCHANGED <<vol, stage, json_output, i, attempt, custom_id, resp, sent,
                 cret, out, host_obj, result, san_ip>>

\* The orchestration framework calls a driver operation of the driver that
\* was set up.
Start(op, size, src_size) ==
  /\ pc = "idle"
  /\ base_url # <<>>
  /\ dop' = op
  /\ vol' = [size |-> size, src_size |-> src_size]
  /\ stage' = FirstStage(op)
  /\ pc' = IF FirstStage(op) \in LookupStages THEN "lookup" ELSE "request"
  /\ UNCHANGED <<json_output, i, attempt, custom_id, resp, sent, cret, out,
                 host_obj, outcome, result, san_ip, base_url>>

\* The mutating request of a client function: json_output = make_call(...).
Request ==
  /\ pc = "request"
  /\ \E r \in MutatingResponses :
       LET q == MutatingRequest(ClientOp(stage), host_obj)
           e == make_call(q.api, r)
       IN /\ sent' = q
          /\ resp' = r
          /\ IF IsError(e)
             THEN /\ Apply(DriverRaise(stage, e, out, host_obj))
                  /\ UNCHANGED json_output
             ELSE /\ json_output' = r
                  /\ pc' = "sleep"
                  /\ UNCHANGED <<stage, outcome, out, host_obj, result>>
  /\ custom_id' = ""
  /\ cret' = NoneValue
  /\ UNCHANGED <<san_ip, base_url, dop, vol, i, attempt>>

\* wait_on_task raised e in attempt number att: the decorator sleeps and
\* calls again, or the exception leaves the client function and the driver.
WaitRaises(e, att) ==
  IF ShouldRetry(e, att)
  THEN /\ pc' = "retry_sleep"
       /\ UNCHANGED <<stage, outcome, out, host_obj, result>>
  ELSE Apply(DriverRaise(stage, e, out, host_obj))

\* wait_on_task is entered for attempt number att, up to its loop.
EnterWait(att) ==
  /\ attempt' = att
  /\ i' = 0
  /\ IF IsError(WaitEntry(json_output))
     THEN WaitRaises(WaitEntry(json_output), att)
     ELSE /\ pc' = "poll"
          /\ UNCHANGED <<stage, outcome, out, host_obj, result>>

\* eventlet.sleep(n) after the mutating request, then the call of
\* wait_on_task (host_add: only if the response names a task).
Sleep ==
  /\ pc = "sleep"
  /\ IF ClientOp(stage) = "host_add" /\ HostAddCondition(json_output) # "wait"
     THEN /\ UNCHANGED <<i, attempt>>
          /\ IF HostAddCondition(json_output) = "skip"
             THEN /\ pc' = "refetch"
                  /\ UNCHANGED <<stage, outcome, out, host_obj, result>>
             ELSE Apply(DriverRaise(stage, Exc("KeyError", "json_output[task]", ""),
                                    out, host_obj))
     ELSE EnterWait(1)
  /\ UNCHANGED <<san_ip, base_url, dop, vol, json_output, custom_id, resp, sent, cret>>

\* One iteration of the loop of wait_on_task: a taskGet round trip.
Poll ==
  /\ pc = "poll"
  /\ \E r \in TaskGetResponses :
       LET p == PollStep(i + 1, r)
       IN /\ i' = i + 1
          /\ resp' = r
          /\ sent' = [api |-> "taskGet", key |-> json_output.task, host |-> ""]
          /\ CASE p.kind = "return" ->
                    /\ custom_id' = IF KeepsCustomId(ClientOp(stage))
                                    THEN p.id ELSE custom_id
                    /\ IF ClientOp(stage) = "storage_volume_delete"
                       THEN Apply(DriverReturn(dop, stage, NoneValue, out,
                                               host_obj, vol, san_ip))
                       ELSE /\ pc' = "refetch"
                            /\ UNCHANGED <<stage, outcome, out, host_obj, result>>
               [] p.kind = "raise" ->
                    /\ WaitRaises(p.exc, attempt)
                    /\ UNCHANGED custom_id
               [] p.kind = "continue" ->
                    /\ pc' = "poll"
                    /\ UNCHANGED <<custom_id, stage, outcome, out, host_obj, result>>
  /\ UNCHANGED <<san_ip, base_url, dop, vol, json_output, attempt, cret>>

\* The retry decorator slept its interval and calls wait_on_task again.
RetrySleep ==
  /\ pc = "retry_sleep"
  /\ EnterWait(attempt + 1)
  /\ UNCHANGED <<san_ip, base_url, dop, vol, json_output, custom_id, resp, sent, cret>>

\* A lookup round trip with request q and response r, and the driver code
\* that follows its return.
DoLookup(q, r) ==
  LET res == LookupResult(q.api, r)
  IN /\ sent' = q
     /\ resp' = r
     /\ cret' = res.val
     /\ IF IsError(res.exc)
        THEN Apply(DriverRaise(stage, res.exc, out, host_obj))
        ELSE Apply(DriverReturn(dop, stage, res.val, out, host_obj, vol, san_ip))
     /\ UNCHANGED <<san_ip, base_url, dop, vol, json_output, i, attempt, custom_id>>

\* The lookup a mutating client function ends with.
Refetch ==
  /\ pc = "refetch"
  /\ \E r \in ResponsesTo(RefetchRequest(ClientOp(stage), custom_id, host_obj).api) :
       DoLookup(RefetchRequest(ClientOp(stage), custom_id, host_obj), r)

\* A lookup the driver calls directly.
Lookup ==
  /\ pc = "lookup"
  /\ \E r \in ResponsesTo(LookupRequest(stage).api) :
       DoLookup(LookupRequest(stage), r)

\* The driver operation has returned or raised; the driver is idle again.
Complete ==
  /\ pc = "done"
  /\ dop' = "none"
  /\ vol' = [size |-> 1, src_size |-> 1]
  /\ stage' = "none"
  /\ pc' = "idle"
  /\ json_output' = NoResponse
  /\ i' = 0
  /\ attempt' = 1
  /\ custom_id' = ""
  /\ resp' = NoResponse
  /\ sent' = NoRequest
  /\ cret' = NoneValue
  /\ out' = NoneValue
  /\ host_obj' = ""
  /\ outcome' = NoExc
  /\ result' = NoResult
  /\ UNCHANGED <<san_ip, base_url>>

CloneOps == {"create_cloned_volume", "create_volume_from_snapshot"}

\* The operations that read volume['size'].
SizedOps == CloneOps \cup {"create_volume", "extend_volume"}

Next ==
  \/ \E op \in DriverOps, size \in SizesGB, src_size \in SizesGB :
       /\ op \notin CloneOps => src_size = size
       /\ op \notin SizedOps => size = 1
       /\ Start(op, size, src_size)
  \/ DoSetup
  \/ Request
  \/ Sleep
  \/ Poll
  \/ RetrySleep
  \/ Refetch
  \/ Lookup
  \/ Complete

Spec == Init /\ [][Next]_vars

\* The client runs on: every taskGet request is answered (requests.get
\* returns), and the sleep of the retry decorator ends.
FairSpec == Spec /\ WF_vars(Poll) /\ WF_vars(RetrySleep)

\* ================================================================ claims
\* The exception the last make_call raised, NoExc if it returned.
LastRaised == IF sent.api = "" THEN NoExc ELSE make_call(sent.api, resp)

\* The last response is a taskGet answer that make_call returned.
TaskAnswered == sent.api = "taskGet" /\ ~IsError(LastRaised) /\ ~resp.empty

\* wait_on_task has just returned to a client function that goes on to a
\* lookup: the poll reached COMPLETED.
PollCompleted ==
  /\ pc = "refetch"
  /\ TaskAnswered
  /\ resp.taskState = OSN_TASKSTATE_COMPLETED

VolumeFunctions ==
  {"storage_volume_create", "storage_create_cloned_volume",
   "storage_create_snapshot", "storage_extend_volume"}

NonTerminal(r) ==
  /\ ~IsError(make_call("taskGet", r))
  /\ \/ r.empty
     \/ r.taskState \notin {OSN_TASKSTATE_FAILED, OSN_TASKSTATE_CANCELLED,
                            OSN_TASKSTATE_COMPLETED}

Completed(r) ==
  /\ ~IsError(make_call("taskGet", r))
  /\ ~r.empty
  /\ r.taskState = OSN_TASKSTATE_COMPLETED
  /\ r.customId # "absent"

\* C2: in the loop of wait_on_task the k-th taskGet request (k = i + 1) is
\* sent for every k <= 10 while the earlier answers named no terminal state;
\* a non-terminal k-th answer with k < 10 keeps the loop polling, and a
\* k-th answer with state 5 makes wait_on_task return that answer's
\* customId after exactly k requests, k = 10 included.
C2_PollUntilCompleted ==
  [][(pc = "poll" /\ i' # i) =>
       /\ i < MaxPolls
       /\ i' = i + 1
       /\ sent'.api = "taskGet"
       /\ (NonTerminal(resp') /\ i' < MaxPolls) =>
            (pc' = "poll" /\ attempt' = attempt)
       /\ Completed(resp') =>
            /\ ~IsError(outcome')
            /\ pc' = (IF ClientOp(stage) = "storage_volume_delete"
                      THEN "lookup" ELSE "refetch")
            /\ (ClientOp(stage) \in VolumeFunctions) =>
                 (custom_id' = resp'.customId)]_vars

\* The tenth answer of the first attempt named state 5 and its customId was
\* returned.
C2_Witness ==
  /\ pc = "refetch" /\ i = MaxPolls /\ attempt = 1
  /\ Completed(resp) /\ resp.customId = "c2" /\ custom_id = "c2"

\* A taskGet answer reported state 3 or 4.
FailObserved ==
  /\ TaskAnswered
  /\ resp.taskState \in {OSN_TASKSTATE_FAILED, OSN_TASKSTATE_CANCELLED}

\* C3 (as stated): once a taskGet answer reports state 3 or 4 the caller has
\* the task-failure error, and no taskGet request follows: no attempt after
\* the first one polls.
C3_Original ==
  /\ FailObserved => (pc = "done" /\ outcome.type = "QuantastorAPIException")
  /\ (attempt > 1) => (i = 0)

\* C4 (as stated): the timeout of the poll loop reaches the caller only
\* after the whole 10-iteration sequence ran 3 times.
C4_Original ==
  (pc = "done" /\ outcome.why = "Task did not complete") =>
    (attempt = Retries /\ i = MaxPolls)

\* wait_on_task is about to be called with a response naming no task.
CalledWithoutTask ==
  /\ pc = "sleep"
  /\ ClientOp(stage) # "host_add"
  /\ (json_output.empty \/ json_output.task = "absent")

\* C5: wait_on_task called with a response that has no task reference
\* raises at once: the error reaches the caller in the first attempt, no
\* taskGet request is sent and the retry decorator does not call again.
C5_NoTaskFailsAtOnce ==
  [][CalledWithoutTask =>
       /\ pc' = "done"
       /\ outcome' = Exc("Exception", "Task object not found in jsonOutput", "")
       /\ attempt' = 1 /\ i' = 0
       /\ sent' = sent /\ sent.api # "taskGet"]_vars

\* storage_volume_create got a response without a task and failed.
C5_Witness ==
  /\ pc = "done" /\ stage = "create"
  /\ outcome.why = "Task object not found in jsonOutput"
  /\ sent.api = "storageVolumeCreate" /\ json_output.task = "absent"
  /\ attempt = 1 /\ i = 0

\* C6 (as stated): an error make_call raises reaches the driver operation's
\* caller unchanged, hostGet being the only endpoint whose error is dropped.
C6_Original ==
  (IsError(LastRaised) /\ sent.api # "hostGet") =>
    (pc = "done" /\ outcome = LastRaised)

\* C6 (amended): an error make_call raises reaches the caller of the driver
\* operation unchanged, except inside the lookups host_get,
\* storage_volume_get and storage_volume_acl_get, which drop it and return
\* an absent result.
C6_ErrorsPropagateExceptLookups ==
  IsError(LastRaised) =>
    IF sent.api \in {"hostGet", "storageVolumeGet", "storageVolumeAclGet"}
    THEN cret = NoneValue /\ outcome # LastRaised
    ELSE pc = "done" /\ outcome = LastRaised

\* delete_volume reported success although the verifying storageVolumeGet
\* failed in make_call.
C6_Witness ==
  /\ pc = "done" /\ dop = "delete_volume" /\ outcome = Ok
  /\ sent.api = "storageVolumeGet" /\ IsError(LastRaised)
  /\ cret = NoneValue

\* C7 (as stated): create_volume, create_cloned_volume,
\* create_volume_from_snapshot, create_snapshot and extend_volume end with
\* VolumeBackendAPIException when the re-fetch after the completed task
\* gave no entity or one without an identifier.
C7_Original ==
  /\ pc = "done"
  /\ dop \in {"create_volume", "create_cloned_volume",
              "create_volume_from_snapshot", "create_snapshot", "extend_volume"}
  /\ sent.api = "storageVolumeGet"
  /\ (cret.kind = "None" \/ cret.id = "null")
  => outcome.type = "VolumeBackendAPIException"

\* C8 (as stated): in initialize_connection, when host creation gave no host
\* or a host without an identifier the operation ends with
\* VolumeBackendAPIException, and the attach request that follows a host
\* creation carries a non-null host id.
C8_Original ==
  /\ (/\ pc = "done" /\ stage = "host_add" /\ sent.api = "hostGet"
      /\ (cret.kind = "None" \/ cret.id = "null"))
     => outcome.type = "VolumeBackendAPIException"
  /\ (stage = "attach" /\ sent.api = "hostGet" /\ sent.key = host_name)
     => host_obj \notin {"null", ""}

\* The storageVolumeGet answer names a volume with a non-null identifier.
Resolves ==
  /\ sent.api = "storageVolumeGet"
  /\ ~IsError(LastRaised) /\ ~resp.empty
  /\ resp.name /\ resp.attrs /\ resp.id \notin {"absent", "null"}

\* C9: delete_volume and delete_snapshot report success only after the
\* delete task completed and the verifying lookup did not resolve the name;
\* when the name still resolves to a non-null identifier they end with
\* VolumeBackendAPIException.
C9_DeleteVerified ==
  pc = "done" /\ dop \in {"delete_volume", "delete_snapshot"} =>
    /\ (outcome = Ok) => (stage = "verify" /\ ~Resolves)
    /\ (stage = "verify" /\ Resolves) =>
         (outcome.type = "VolumeBackendAPIException")

\* delete_snapshot failed because the snapshot still resolved.
C9_Witness ==
  /\ pc = "done" /\ dop = "delete_snapshot" /\ stage = "verify"
  /\ Resolves /\ outcome.type = "VolumeBackendAPIException"

\* The ways the server tells that a volume does not exist.
NonExistent(r) ==
  \/ r.status # HTTP_OK
  \/ r.RestError
  \/ r.empty
  \/ r.id = "absent"

\* C10: storage_volume_get answered with a non-200 status, a RestError
\* body, an empty body or a body without id returns None and raises nothing.
C10_AbsentNotError ==
  sent.api = "storageVolumeGet" /\ NonExistent(resp) =>
    /\ cret = NoneValue
    /\ (pc = "done") =>
         (outcome.type \notin {"VolumeDriverException", "KeyError"})

\* initialize_connection's lookup got a RestError body, and the driver saw
\* an absent volume.
C10_Witness ==
  /\ sent.api = "storageVolumeGet" /\ resp = RestErrorBody
  /\ cret = NoneValue
  /\ pc = "done" /\ stage = "vol_get"
  /\ outcome.type = "VolumeBackendAPIException"

\* The stages in which the driver is inside one of the four volume
\* functions.
VolumeStages == {"create", "clone", "snapshot", "extend"}

\* wait_on_task has just raised out of a volume function: the operation
\* ended in a poll step, with the error of that step.
PollFailed ==
  /\ pc = "done" /\ stage \in VolumeStages
  /\ sent.api = "taskGet" /\ IsError(outcome)

\* C11: inside storage_volume_create, storage_create_cloned_volume,
\* storage_create_snapshot and storage_extend_volume the mutating request
\* is followed by the sleep, the sleep by the taskGet polls, and the polls
\* by the storageVolumeGet re-fetch: a taskGet request follows the sleep or
\* an earlier poll of the same call, and storageVolumeGet is requested only
\* in the step after a taskGet answer with state 5; when the poll fails or
\* times out the function is left with no further request.
C11_RequestOrder ==
  [][(stage \in VolumeStages /\ pc # "done") =>
       /\ (pc = "request") =>
            /\ sent'.api = MutatingEndpoint(ClientOp(stage))
            /\ pc' \in {"sleep", "done"}
       /\ (pc = "sleep") => (sent' = sent /\ pc' \in {"poll", "done"})
       /\ (sent'.api = "taskGet" /\ i' = i + 1) =>
            /\ pc = "poll"
            /\ sent.api \in {MutatingEndpoint(ClientOp(stage)), "taskGet"}
       /\ (sent'.api = "storageVolumeGet") =>
            /\ pc = "refetch"
            /\ sent.api = "taskGet"
            /\ ~IsError(make_call("taskGet", resp)) /\ ~resp.empty
            /\ resp.taskState = OSN_TASKSTATE_COMPLETED
       /\ PollFailed' => (sent'.api = "taskGet" /\ pc = "poll")]_vars

\* create_snapshot re-fetched the snapshot after the task completed in the
\* second poll of the second attempt.
C11_Witness ==
  /\ pc = "done" /\ dop = "create_snapshot" /\ outcome = Ok
  /\ sent.api = "storageVolumeGet" /\ sent.key = custom_id
  /\ attempt = 2 /\ i = 2

\* The endpoints whose make_call is not inside a try block of the client.
UnguardedEndpoints ==
  {"storageVolumeCreate", "storageVolumeClone", "storageVolumeSnapshot",
   "storageVolumeResize", "storageVolumeDeleteEx", "hostAdd",
   "storageVolumeAclAddRemove", "taskGet"}

\* C12: make_call puts every response into exactly one of three classes: a
\* status other than 200 raises the transport error with the endpoint and
\* the status code, whatever the body holds; a 200 response with the
\* RestError field raises the remote API error with the endpoint; any
\* other 200 response is returned as it was decoded and make_call raises
\* nothing.
C12_ResponseClasses ==
  sent.api \in UnguardedEndpoints =>
    CASE resp.status # HTTP_OK ->
           /\ pc = "done"
           /\ outcome = [type |-> "VolumeDriverException", why |-> "status",
                         api |-> sent.api, code |-> resp.status]
      [] resp.status = HTTP_OK /\ resp.RestError ->
           /\ pc = "done"
           /\ outcome = [type |-> "VolumeDriverException", why |-> "RestError",
                         api |-> sent.api, code |-> 0]
      [] OTHER ->
           /\ outcome.type # "VolumeDriverException"
           /\ (sent.api # "taskGet") => (json_output = resp)

\* storageVolumeCreate was answered 404 with an error object in the body,
\* and create_volume ended with the transport error.
C12_Witness ==
  /\ pc = "done" /\ dop = "create_volume"
  /\ sent.api = "storageVolumeCreate"
  /\ resp.status = 404 /\ resp.RestError
  /\ outcome.why = "status" /\ outcome.code = 404

\* C13: the bytes gb_to_b_size gives for a whole number n of GB are turned
\* back into exactly n by b_to_gb_size: a pool whose size is
\* gb_to_b_size(n) is reported with total_capacity_gb = n, and 10 GB are
\* 10737418240 bytes.
C13_RoundTrip ==
  /\ gb_to_b_size(10) = <<"1", "0", "7", "3", "7", "4", "1", "8", "2", "4", "0">>
  /\ (result.kind = "stats") =>
       \A n \in PoolSizesGB :
         (resp.size = gb_to_b_size(n)) =>
           (result.total_capacity_gb = [kind |-> "float", whole |-> n, frac |-> 0])

\* The stats of a pool of 10737418240 bytes say 10.0 GB.
C13_Witness ==
  /\ pc = "done" /\ dop = "get_volume_stats" /\ outcome = Ok
  /\ result.kind = "stats"
  /\ resp.size = <<"1", "0", "7", "3", "7", "4", "1", "8", "2", "4", "0">>
  /\ result.total_capacity_gb = [kind |-> "float", whole |-> 10, frac |-> 0]

\* C14: build_tgt_ip gives an IPv4 address back as it is, an IPv6 address
\* in square brackets, and raises for a string that is no address; the
\* target_portal of the connection result is that string followed by
\* ":3260" (10.0.0.5:3260, [fe80::1]:3260), the base URL of the client
\* holds the same string, and with an address that does not parse do_setup
\* raises, no client exists and no connection result is returned.
C14_NormalizedAddress ==
  /\ (san_ip = <<"1", "0", ".", "0", ".", "0", ".", "5">>) =>
       /\ (base_url # <<>>) =>
            (base_url = <<"h", "t", "t", "p", "s", ":", "/", "/",
                          "1", "0", ".", "0", ".", "0", ".", "5",
                          ":", "8", "1", "5", "3", "/",
                          "q", "s", "t", "o", "r", "a", "p", "i", "/">>)
       /\ (result.kind = "connection") =>
            (result.target_portal =
               <<"1", "0", ".", "0", ".", "0", ".", "5",
                 ":", "3", "2", "6", "0">>)
       /\ (dop = "do_setup" /\ pc = "done") => (outcome = Ok /\ base_url # <<>>)
  /\ (san_ip = <<"f", "e", "8", "0", ":", ":", "1">>) =>
       /\ (base_url # <<>>) =>
            (base_url = <<"h", "t", "t", "p", "s", ":", "/", "/",
                          "[", "f", "e", "8", "0", ":", ":", "1", "]",
                          ":", "8", "1", "5", "3", "/",
                          "q", "s", "t", "o", "r", "a", "p", "i", "/">>)
       /\ (result.kind = "connection") =>
            (result.target_portal =
               <<"[", "f", "e", "8", "0", ":", ":", "1", "]",
                 ":", "3", "2", "6", "0">>)
       /\ (dop = "do_setup" /\ pc = "done") => (outcome = Ok /\ base_url # <<>>)
  /\ (san_ip \in {SanIpBadOctet, SanIpBadColons, SanIpHostName}) =>
       /\ base_url = <<>>
       /\ result.kind # "connection"
       /\ (dop = "do_setup" /\ pc = "done") =>
            (outcome.type = "Exception"
               /\ outcome.why = "san_ip address is invalid")

\* initialize_connection returned the portal of the IPv6 address.
C14_Witness ==
  /\ pc = "done" /\ dop = "initialize_connection" /\ outcome = Ok
  /\ san_ip = SanIpV6
  /\ result.kind = "connection"
  /\ result.target_portal =
       <<"[", "f", "e", "8", "0", ":", ":", "1", "]", ":", "3", "2", "6", "0">>

\* Control is inside wait_on_task or its retry decorator.
InWaitOnTask == pc \in {"poll", "retry_sleep"}

\* C15: every call of wait_on_task ends, whatever the server answers to
\* taskGet, answers without taskState and never-ending tasks included: it
\* returns the customId or raises, having sent at most 10 taskGet requests
\* in an attempt and made at most 3 attempts.
C15_WaitOnTaskTerminates ==
  /\ [](i <= MaxPolls /\ attempt <= Retries)
  /\ [][(pc = "poll" /\ pc' = "poll") => (i' = i + 1 /\ attempt' = attempt)]_vars
  /\ [][(pc = "retry_sleep") => (attempt' = attempt + 1)]_vars
  /\ InWaitOnTask ~> ~InWaitOnTask

\* The third attempt ran out of polls on a task that never named a state,
\* after two attempts that saw the task fail: wait_on_task raised.
C15_Witness ==
  /\ pc = "done" /\ attempt = Retries /\ i = MaxPolls
  /\ sent.api = "taskGet" /\ resp.taskState = NoState
  /\ outcome.why = "Task did not complete"

\* C16 (as stated): initialize_connection sends the attach request only
\* after the volume lookup gave a volume with a non-null id and only with a
\* non-null host id, whether the host was found or created; it returns the
\* connection result only if the ACL fetched after the attach task carries
\* a non-null host id, and in every other case it raises and returns none.
C16_Original ==
  /\ (sent.api = "storageVolumeAclAddRemove") =>
       /\ out.kind = "Volume" /\ out.id # "null"
       /\ sent.host \notin {"null", ""}
  /\ (result.kind = "connection") =>
       /\ sent.api = "storageVolumeAclGet"
       /\ cret.kind = "VolumeAcl" /\ cret.id # "null"
  /\ (dop = "initialize_connection" /\ pc = "done"
        /\ result.kind # "connection") => IsError(outcome)

====
